---- MODULE Spec2Model ----
(***************************************************************************)
(* histo_opt.py: an animated histogram of the second column of a CSV file. *)
(* Strings are sequences of one-character strings, so that str.split,      *)
(* str.lower, int() and float() are computed and not assumed.              *)
(* Numbers are integers: every numeric literal of the inputs below is an   *)
(* integral decimal, and the quotient (maxrange - minrange) / nbins is     *)
(* kept exact as a reduced fraction.                                       *)
(***************************************************************************)
EXTENDS Integers, Sequences, FiniteSets, TLC

VARIABLES
    argv,        \* sys.argv[1:]
    argi,        \* position of the for loop of parse_args in argv
    config,      \* the dict built by parse_args
    pc,          \* "parse_args", "main", "show", "exited", "crashed"
    output,      \* what was printed, in order
    exitStatus,  \* process exit status, -1 while running
    file,        \* the one path on disk: whether it can be opened, and its lines
    figure,      \* NoFigure, or the pyplot figure: cleared flag and artists
    raised,      \* exception that left the last render cycle, "none" otherwise
    assigned,    \* the locals the last plot_histogram call had bound
    fhand,       \* the lines the last read_data call iterated over
    data,        \* local of the last plot_histogram call
    nbins,       \* local of the last plot_histogram call
    bin_length,  \* local of the last plot_histogram call
    cycles,      \* render cycles run so far
    appends,     \* rows appended by the external writer so far
    rdFile,      \* input of the stand-alone read_data run
    rdOut        \* result of the stand-alone read_data run

locals == <<assigned, fhand, data, nbins, bin_length>>

vars == <<argv, argi, config, pc, output, exitStatus, file, figure, raised,
          locals, cycles, appends, rdFile, rdOut>>

\* ---------------------------------------------------------------- bounds
MaxArgs == 3
MaxCycles == 2
MaxAppends == 1
MaxLines == 3

\* --------------------------------------------------------------- strings
NL == "\n"
Whitespace == {" ", NL, "\t"}
Digits == <<"0", "1", "2", "3", "4", "5", "6", "7", "8", "9">>
Upper == <<"A", "B", "C", "D", "E", "F", "G", "H", "I", "J", "K", "L", "M",
           "N", "O", "P", "Q", "R", "S", "T", "U", "V", "W", "X", "Y", "Z">>
Lower == <<"a", "b", "c", "d", "e", "f", "g", "h", "i", "j", "k", "l", "m",
           "n", "o", "p", "q", "r", "s", "t", "u", "v", "w", "x", "y", "z">>

IsDigit(c) == \E d \in DOMAIN Digits : Digits[d] = c
DigitVal(c) == (CHOOSE d \in DOMAIN Digits : Digits[d] = c) - 1

lower_char(c) ==
    IF \E u \in DOMAIN Upper : Upper[u] = c
    THEN Lower[CHOOSE u \in DOMAIN Upper : Upper[u] = c]
    ELSE c

\* str.lower()
lower(s) == [i \in DOMAIN s |-> lower_char(s[i])]

\* str.split(sep): always at least one field
RECURSIVE split(_, _)
split(s, sep) ==
    IF \E i \in DOMAIN s : s[i] = sep
    THEN LET i == CHOOSE k \in DOMAIN s :
                      s[k] = sep /\ \A j \in 1..(k - 1) : s[j] # sep
         IN  <<SubSeq(s, 1, i - 1)>> \o split(SubSeq(s, i + 1, Len(s)), sep)
    ELSE <<s>>

\* str.strip(), as int() and float() apply it to their argument
RECURSIVE strip(_)
strip(s) ==
    IF s = <<>> THEN s
    ELSE IF s[1] \in Whitespace THEN strip(Tail(s))
    ELSE IF s[Len(s)] \in Whitespace THEN strip(SubSeq(s, 1, Len(s) - 1))
    ELSE s

RECURSIVE NatVal(_)
NatVal(s) ==
    IF s = <<>> THEN 0
    ELSE 10 * NatVal(SubSeq(s, 1, Len(s) - 1)) + DigitVal(s[Len(s)])

IsNat(s) == s # <<>> /\ \A i \in DOMAIN s : IsDigit(s[i])

\* an optionally signed run of decimal digits, surrounded by whitespace
IsDecimal(s) ==
    LET t == strip(s)
    IN  /\ t # <<>>
        /\ IF t[1] \in {"-", "+"} THEN IsNat(Tail(t)) ELSE IsNat(t)

DecimalVal(s) ==
    LET t == strip(s)
    IN  IF t[1] = "-" THEN 0 - NatVal(Tail(t))
        ELSE IF t[1] = "+" THEN NatVal(Tail(t))
        ELSE NatVal(t)

\* int(value): raises ValueError unless the text is a decimal integer
int_ok(s) == IsDecimal(s)
int_val(s) == DecimalVal(s)

\* float(value), on the literals of this model (integral decimals; anything
\* else here is text such as "x" or "", on which float raises ValueError)
float_ok(s) == IsDecimal(s)
float_val(s) == DecimalVal(s)

\* ------------------------------------------------------------- fractions
RECURSIVE GCD(_, _)
GCD(a, b) == IF b = 0 THEN a ELSE GCD(b, a % b)

Abs(a) == IF a < 0 THEN 0 - a ELSE a

Sign(a) == IF a < 0 THEN -1 ELSE 1

\* a / b for b # 0, as a reduced fraction with a positive denominator
TrueDiv(a, b) ==
    LET g == GCD(Abs(a), Abs(b))
    IN  IF a = 0 THEN [num |-> 0, den |-> 1]
        ELSE [num |-> Sign(a) * Sign(b) * (Abs(a) \div g),
              den |-> Abs(b) \div g]

Whole(a) == [num |-> a, den |-> 1]

\* int(a / b) for b > 0: the quotient truncated toward zero
IntOfQuotient(a, b) == IF a >= 0 THEN a \div b ELSE 0 - ((0 - a) \div b)

\* ------------------------------------------------------ the settings dict
K_binlength == <<"b", "i", "n", "l", "e", "n", "g", "t", "h">>
K_maxrange == <<"m", "a", "x", "r", "a", "n", "g", "e">>
K_minrange == <<"m", "i", "n", "r", "a", "n", "g", "e">>
K_file == <<"f", "i", "l", "e">>
K_color == <<"c", "o", "l", "o", "r">>
K_values == <<"v", "a", "l", "u", "e", "s">>
K_bins == <<"b", "i", "n", "s">>

S_true == <<"t", "r", "u", "e">>
S_b == <<"b">>

DefaultMaxrange == 1500000

FloatKeys == {K_binlength, K_maxrange, K_minrange}
TextKeys == {K_file, K_color, K_values}
KnownKeys == FloatKeys \cup TextKeys \cup {K_bins}

DefaultConfig ==
    (K_binlength :> 0) @@ (K_maxrange :> DefaultMaxrange) @@ (K_minrange :> 0)
    @@ (K_color :> S_b) @@ (K_values :> S_true) @@ (K_bins :> 0)

\* config[k] = v
Store(cfg, k, v) ==
    [x \in (DOMAIN cfg) \cup {k} |-> IF x = k THEN v ELSE cfg[x]]

\* ------------------------------------------------------------ parse_args
\* an unpacking that lets extra parts through
Unpackable_lenient(parts) == Len(parts) >= 2

\* key, value = arg.split('='): unpacking needs exactly two parts
Unpackable(parts) == Len(parts) = 2

\* a parse_args that stores under the lower-cased key
StoreKey_lower(key) == lower(key)

\* the subscript of the assignments config[key] = ...: the key as typed
StoreKey(key) == key

Proceed(cfg) == [raises |-> FALSE, config |-> cfg]
Invalid(cfg) == [raises |-> TRUE, config |-> cfg]

\* a parse_args that rejects the keys it does not know
convert_strict(cfg, key, value) ==
    IF lower(key) \in FloatKeys
    THEN IF float_ok(value)
         THEN Proceed(Store(cfg, StoreKey(key), float_val(value)))
         ELSE Invalid(cfg)
    ELSE IF lower(key) \in TextKeys
    THEN Proceed(Store(cfg, StoreKey(key), value))
    ELSE IF lower(key) = K_bins
    THEN IF int_ok(value)
         THEN Proceed(Store(cfg, StoreKey(key), int_val(value)))
         ELSE Invalid(cfg)
    ELSE Invalid(cfg)

\* the branch taken for a key, value pair
convert(cfg, key, value) ==
    IF lower(key) \in FloatKeys
    THEN IF float_ok(value)
         THEN Proceed(Store(cfg, StoreKey(key), float_val(value)))
         ELSE Invalid(cfg)
    ELSE IF lower(key) \in TextKeys
    THEN Proceed(Store(cfg, StoreKey(key), value))
    ELSE IF lower(key) = K_bins
    THEN IF int_ok(value)
         THEN Proceed(Store(cfg, StoreKey(key), int_val(value)))
         ELSE Invalid(cfg)
    ELSE Proceed(cfg)

\* the body of the try block for one token
parse_token(cfg, arg) ==
    LET parts == split(arg, "=")
    IN  IF Unpackable(parts) THEN convert(cfg, parts[1], parts[2])
        ELSE Invalid(cfg)

Doc == [stream |-> "stdout", text |-> "__doc__", arg |-> <<>>]
InvalidArgument(arg) ==
    [stream |-> "stderr", text |-> "Invalid argument format", arg |-> arg]
OpenError(path) ==
    [stream |-> "stdout", text |-> "could not be found or opened", arg |-> path]

\* one iteration of the for loop that raises nothing
ParseArg ==
    /\ pc = "parse_args"
    /\ argi <= Len(argv)
    /\ ~parse_token(config, argv[argi]).raises
    /\ config' = parse_token(config, argv[argi]).config
    /\ argi' = argi + 1
    /\ UNCHANGED <<argv, pc, output, exitStatus, file, figure, raised,
                   locals, cycles, appends, rdFile, rdOut>>

\* one iteration that raises ValueError: print(__doc__); sys.exit(message)
ParseArgInvalid ==
    /\ pc = "parse_args"
    /\ argi <= Len(argv)
    /\ parse_token(config, argv[argi]).raises
    /\ output' = output \o <<Doc, InvalidArgument(argv[argi])>>
    /\ exitStatus' = 1
    /\ pc' = "exited"
    /\ UNCHANGED <<argv, argi, config, file, figure, raised, locals, cycles,
                   appends, rdFile, rdOut>>

\* a parse_args that checks bins against binlength before it returns
ParseReturn_validating ==
    /\ pc = "parse_args"
    /\ argi > Len(argv)
    /\ IF (config[K_bins] = 0) = (config[K_binlength] = 0)
       THEN /\ output' = Append(output, Doc)
            /\ exitStatus' = 1
            /\ pc' = "exited"
       ELSE /\ pc' = "main"
            /\ UNCHANGED <<output, exitStatus>>
    /\ UNCHANGED <<argv, argi, config, file, figure, raised, locals, cycles,
                   appends, rdFile, rdOut>>

\* return config
ParseReturn ==
    /\ pc = "parse_args"
    /\ argi > Len(argv)
    /\ pc' = "main"
    /\ UNCHANGED <<argv, argi, config, output, exitStatus, file, figure,
                   raised, locals, cycles, appends, rdFile, rdOut>>

\* ------------------------------------------------------------------ main
NoFigure == [exists |-> FALSE, cleared |-> FALSE, bars |-> <<>>, texts |-> <<>>]
\* plt.subplots()
NewFigure == [exists |-> TRUE, cleared |-> FALSE, bars |-> <<>>, texts |-> <<>>]

\* fig, ax = plt.subplots(); FuncAnimation(...); plt.show()
Main ==
    /\ pc = "main"
    /\ figure' = NewFigure
    /\ pc' = "show"
    /\ UNCHANGED <<argv, argi, config, output, exitStatus, file, raised,
                   locals, cycles, appends, rdFile, rdOut>>

\* ------------------------------------------------------------- read_data
NoFile == [exists |-> FALSE, lines |-> <<>>]
OnDisk(lines) == [exists |-> TRUE, lines |-> lines]
\* the one path of the file system of this model
FilePath == <<"f">>

\* open(filePath, 'r') succeeds
Openable(path, f) == path = FilePath /\ f.exists

\* a read_data that takes the first line for data
SkipsLine_never(i) == FALSE

\* the first iteration (i == 0) skips its line, whatever it holds
SkipsLine(i) == i = 0

\* the for loop over the lines, from line number i (counted from 0)
RECURSIVE read_lines(_, _)
read_lines(lines, i) ==
    IF lines = <<>> THEN <<>>
    ELSE IF SkipsLine(i) THEN read_lines(Tail(lines), i + 1)
    ELSE LET info == split(Head(lines), ",")
         IN  IF Len(info) > 1 /\ float_ok(info[2])
             THEN <<float_val(info[2])>> \o read_lines(Tail(lines), i)
             ELSE read_lines(Tail(lines), i)

\* the list returned for a file that opened
read_data(lines) == read_lines(lines, 0)

\* -------------------------------------------------------- plot_histogram
\* a branch selection that tests for nonzero instead of positive
Branch_nonzero(cfg) ==
    IF cfg[K_bins] = 0 /\ cfg[K_binlength] # 0 THEN "binlength"
    ELSE IF cfg[K_binlength] = 0 /\ cfg[K_bins] # 0 THEN "bins"
    ELSE "error"

\* which branch of the if / elif / else computes the layout
Branch(cfg) ==
    IF cfg[K_bins] = 0 /\ cfg[K_binlength] > 0 THEN "binlength"
    ELSE IF cfg[K_binlength] = 0 /\ cfg[K_bins] > 0 THEN "bins"
    ELSE "error"

\* a bin count that rounds down instead of toward zero
nbins_floor(maxrange, minrange, length) == (maxrange - minrange) \div length

\* nbins = int((maxrange - minrange) / bin_length)
nbins_from_length(maxrange, minrange, length) ==
    IntOfQuotient(maxrange - minrange, length)

\* bin_length = (maxrange - minrange) / nbins
length_from_nbins(maxrange, minrange, n) == TrueDiv(maxrange - minrange, n)

layout(cfg) ==
    IF Branch(cfg) = "binlength"
    THEN [nbins |-> nbins_from_length(cfg[K_maxrange], cfg[K_minrange],
                                      cfg[K_binlength]),
          bin_length |-> Whole(cfg[K_binlength])]
    ELSE [nbins |-> cfg[K_bins],
          bin_length |-> length_from_nbins(cfg[K_maxrange], cfg[K_minrange],
                                           cfg[K_bins])]

\* plt.hist(data, bins=n, range=(lo, hi)) raises ValueError: the bin count
\* must be positive and the range must not be reversed
hist_raises(n, lo, hi) == n < 1 \/ lo > hi

\* the outer edges in half units: an empty range lo = hi is widened by 1/2
\* on each side
Lo2(lo, hi) == IF lo = hi THEN 2 * lo - 1 ELSE 2 * lo
Hi2(lo, hi) == IF lo = hi THEN 2 * hi + 1 ELSE 2 * hi

\* the bin (from 0) of a value inside the range: the value on the upper
\* outer edge goes to the last bin
bin_index(v2, n, lo2, hi2) ==
    IF v2 = hi2 THEN n - 1 ELSE ((v2 - lo2) * n) \div (hi2 - lo2)

\* a histogram whose last bin is half-open as well
RECURSIVE histogram_open(_, _, _, _)
histogram_open(d, n, lo2, hi2) ==
    IF d = <<>> THEN [k \in 1..n |-> 0]
    ELSE LET h == histogram_open(Tail(d), n, lo2, hi2)
             v2 == 2 * Head(d)
         IN  IF lo2 <= v2 /\ v2 < hi2
             THEN [h EXCEPT ![((v2 - lo2) * n) \div (hi2 - lo2) + 1] = @ + 1]
             ELSE h

\* the counts of n equal bins over [lo2/2, hi2/2], in one pass over the data
RECURSIVE histogram(_, _, _, _)
histogram(d, n, lo2, hi2) ==
    IF d = <<>> THEN [k \in 1..n |-> 0]
    ELSE LET h == histogram(Tail(d), n, lo2, hi2)
             v2 == 2 * Head(d)
         IN  IF lo2 <= v2 /\ v2 <= hi2
             THEN [h EXCEPT ![bin_index(v2, n, lo2, hi2) + 1] = @ + 1]
             ELSE h

\* the bar container plt.hist adds, with its legend label
hist(d, lay, cfg) ==
    LET lo2 == Lo2(cfg[K_minrange], cfg[K_maxrange])
        hi2 == Hi2(cfg[K_minrange], cfg[K_maxrange])
    IN  [values |-> histogram(d, lay.nbins, lo2, hi2),
         nbins |-> lay.nbins, lo2 |-> lo2, hi2 |-> hi2,
         color |-> cfg[K_color],
         label |-> [entries |-> Len(d), maxrange |-> cfg[K_maxrange],
                    minrange |-> cfg[K_minrange],
                    bin_length |-> lay.bin_length, nbins |-> lay.nbins]]

\* plt.text(b + bin_length / 2, v, int(v)) for the bins with v > 0, where b
\* is the left edge of the bin
RECURSIVE text_labels(_, _)
text_labels(bar, k) ==
    IF k > bar.nbins THEN <<>>
    ELSE IF bar.values[k] > 0
    THEN <<[x |-> TrueDiv(bar.label.bin_length.den
                            * (bar.nbins * bar.lo2
                               + (k - 1) * (bar.hi2 - bar.lo2))
                          + bar.nbins * bar.label.bin_length.num,
                          2 * bar.nbins * bar.label.bin_length.den),
            y |-> bar.values[k], text |-> bar.values[k]]>>
         \o text_labels(bar, k + 1)
    ELSE text_labels(bar, k + 1)

\* a clear that leaves the artists of the previous frame
clf_keep(fig) == [fig EXCEPT !.cleared = TRUE]

\* plt.clf()
clf(fig) == [fig EXCEPT !.cleared = TRUE, !.bars = <<>>, !.texts = <<>>]

\* the figure after plt.hist and the text loop
drawn(fig, d, lay, cfg) ==
    LET bar == hist(d, lay, cfg)
    IN  [fig EXCEPT !.bars = Append(@, bar),
                    !.texts = IF cfg[K_values] = S_true
                              THEN @ \o text_labels(bar, 1) ELSE @]

\* a local that the call has not bound holds nothing to read; the model
\* keeps these values in its place
NoData == <<>>
NoBins == 0
NoLength == Whole(0)

\* raise ValueError("Either the number of bins or the bin length ...")
ConfigError == "ValueError: bins or bin length"

\* one call of plot_histogram: what it raises, what it prints, and the
\* figure and locals it leaves
plot_histogram(cfg, f, fig) ==
    IF K_file \notin DOMAIN cfg
    THEN \* config['file']
         [raised |-> "KeyError", printed |-> <<>>, figure |-> fig,
          assigned |-> {}, fhand |-> <<>>,
          data |-> NoData, nbins |-> NoBins, bin_length |-> NoLength]
    ELSE IF ~Openable(cfg[K_file], f)
    THEN \* the except clause prints, then calls display_help, a name that
         \* is defined nowhere: NameError, and sys.exit(1) is not reached
         [raised |-> "NameError", printed |-> <<OpenError(cfg[K_file])>>,
          figure |-> fig, assigned |-> {}, fhand |-> <<>>,
          data |-> NoData, nbins |-> NoBins, bin_length |-> NoLength]
    ELSE IF Branch(cfg) = "error"
    THEN [raised |-> ConfigError, printed |-> <<>>, figure |-> fig,
          assigned |-> {"data"}, fhand |-> f.lines,
          data |-> read_data(f.lines), nbins |-> NoBins,
          bin_length |-> NoLength]
    ELSE IF hist_raises(layout(cfg).nbins, cfg[K_minrange], cfg[K_maxrange])
    THEN [raised |-> "ValueError: hist", printed |-> <<>>,
          figure |-> clf(fig), data |-> read_data(f.lines),
          assigned |-> {"data", "nbins", "bin_length"}, fhand |-> f.lines,
          nbins |-> layout(cfg).nbins, bin_length |-> layout(cfg).bin_length]
    ELSE [raised |-> "none", printed |-> <<>>,
          figure |-> drawn(clf(fig), read_data(f.lines), layout(cfg), cfg),
          data |-> read_data(f.lines),
          assigned |-> {"data", "nbins", "bin_length"}, fhand |-> f.lines,
          nbins |-> layout(cfg).nbins, bin_length |-> layout(cfg).bin_length]

\* a frame of the animation: draw_histogram(i, config) returns
DrawHistogram ==
    /\ pc = "show"
    /\ cycles < MaxCycles
    /\ LET r == plot_histogram(config, file, figure)
       IN  /\ r.raised = "none"
           /\ raised' = r.raised
           /\ output' = output \o r.printed
           /\ figure' = r.figure
           /\ assigned' = r.assigned
           /\ fhand' = r.fhand
           /\ data' = r.data
           /\ nbins' = r.nbins
           /\ bin_length' = r.bin_length
    /\ cycles' = cycles + 1
    /\ UNCHANGED <<argv, argi, config, pc, exitStatus, file, appends, rdFile,
                   rdOut>>

\* a frame whose draw_histogram raises: the exception reaches the event loop
\* of the GUI toolkit, which reports it and goes on, or lets it end the
\* process with a traceback (status 1)
DrawHistogramRaises ==
    /\ pc = "show"
    /\ cycles < MaxCycles
    /\ LET r == plot_histogram(config, file, figure)
       IN  /\ r.raised # "none"
           /\ raised' = r.raised
           /\ output' = output \o r.printed
           /\ figure' = r.figure
           /\ assigned' = r.assigned
           /\ fhand' = r.fhand
           /\ data' = r.data
           /\ nbins' = r.nbins
           /\ bin_length' = r.bin_length
    /\ cycles' = cycles + 1
    /\ \/ UNCHANGED <<pc, exitStatus>>
       \/ pc' = "crashed" /\ exitStatus' = 1
    /\ UNCHANGED <<argv, argi, config, file, appends, rdFile, rdOut>>

\* ------------------------------------------------------------- the inputs
Eq == <<"=">>
T_file == K_file \o Eq \o FilePath
T_bins == K_bins \o Eq \o <<"2">>
T_binlength == K_binlength \o Eq \o <<"4", "0", "0", "0", "0", "0">>
T_maxrange_neg == K_maxrange \o Eq \o <<"-", "2">>
T_bins_neg == K_bins \o Eq \o <<"-", "1">>
T_Bins == <<"B", "i", "n", "s">> \o Eq \o <<"2">>
T_Bins_x == <<"B", "i", "n", "s">> \o Eq \o <<"x">>
T_unknown == <<"z", "z">> \o Eq \o <<"1">>
T_no_eq == K_bins
T_two_eq == <<"a", "=", "b", "=", "c">>

TokenPool == {T_file, T_bins, T_binlength, T_maxrange_neg, T_bins_neg,
              T_Bins, T_Bins_x, T_unknown, T_no_eq, T_two_eq}

SeqsUpTo(S, n) == UNION {[1..k -> S] : k \in 0..n}

F_rows == << <<"h", NL>>, <<"1", ",", "1", NL>>,
             <<"2", ",", "7", "5", "0", "0", "0", "0", NL>>,
             <<"3", ",", "x", NL>>,
             <<"4", ",", "1", "5", "0", "0", "0", "0", "0", NL>>,
             <<"5", ",", "4", "5", "0", "0", "0", "0", NL>> >>
FilePool == {F_rows}

RowPool == { <<"6", ",", "2", NL>> }

LinePool == { <<"h", NL>>, <<"1", ",", "1", NL>>, <<"2", ",", "x", NL>>,
              <<"7", NL>>, <<"1", ",", "-", "2", ",", "5", NL>>,
              <<"a", ",", NL>>, <<",", "3">>, <<NL>> }

\* ------------------------------------------------------ the file's writer
\* another process appends a row to the file while the window is shown
AppendRow ==
    /\ pc = "show"
    /\ file.exists
    /\ appends < MaxAppends
    /\ \E row \in RowPool : file' = [file EXCEPT !.lines = Append(@, row)]
    /\ appends' = appends + 1
    /\ UNCHANGED <<argv, argi, config, pc, output, exitStatus, figure,
                   raised, locals, cycles, rdFile, rdOut>>

\* ------------------------------------------------------- the whole program
Init ==
    /\ argv \in SeqsUpTo(TokenPool, MaxArgs)
    /\ argi = 1
    /\ config = DefaultConfig
    /\ pc = "parse_args"
    /\ output = <<>>
    /\ exitStatus = -1
    /\ file \in {OnDisk(f) : f \in FilePool} \cup {NoFile}
    /\ figure = NoFigure
    /\ raised = "none"
    /\ assigned = {}
    /\ fhand = <<>>
    /\ data = NoData
    /\ nbins = NoBins
    /\ bin_length = NoLength
    /\ cycles = 0
    /\ appends = 0
    /\ rdFile = <<>>
    /\ rdOut = <<>>

Next ==
    \/ ParseArg
    \/ ParseArgInvalid
    \/ ParseReturn
    \/ Main
    \/ DrawHistogram
    \/ DrawHistogramRaises
    \/ AppendRow

Spec == Init /\ [][Next]_vars

\* ------------------------------------------------ read_data on its own
InitRead ==
    /\ rdFile \in SeqsUpTo(LinePool, MaxLines)
    /\ rdOut = <<>>
    /\ pc = "read_data"
    /\ argv = <<>>
    /\ argi = 1
    /\ config = DefaultConfig
    /\ output = <<>>
    /\ exitStatus = -1
    /\ file = NoFile
    /\ figure = NoFigure
    /\ raised = "none"
    /\ assigned = {}
    /\ fhand = <<>>
    /\ data = NoData
    /\ nbins = NoBins
    /\ bin_length = NoLength
    /\ cycles = 0
    /\ appends = 0

\* data = read_data(path) on a file that opens
ReadData ==
    /\ pc = "read_data"
    /\ rdOut' = read_data(rdFile)
    /\ pc' = "returned"
    /\ UNCHANGED <<argv, argi, config, output, exitStatus, file, figure,
                   raised, locals, cycles, appends, rdFile>>

NextRead == ReadData

SpecRead == InitRead /\ [][NextRead]_vars

\* ================================================================ claims
Min(S) == CHOOSE x \in S : \A y \in S : x <= y
Kth(S, k) == CHOOSE x \in S : Cardinality({y \in S : y < x}) = k - 1

\* the last render cycle found the configured path impossible to open
OpenFailed ==
    /\ cycles >= 1
    /\ K_file \in DOMAIN config
    /\ ~Openable(config[K_file], file)

\* C1: when read_data cannot open the file, the process prints an error
\* naming the path, then the usage text, and exits with status 1; nothing is
\* drawn in that cycle.
C1_OpenFailureIsFatal ==
    OpenFailed =>
        /\ pc \in {"exited", "crashed"}
        /\ exitStatus = 1
        /\ cycles = 1
        /\ output = <<OpenError(config[K_file]), Doc>>
        /\ figure = NewFigure

\* ------------------------------------------------------------------- C4
Commas(line) == {i \in DOMAIN line : line[i] = ","}

\* the text between the first comma and the next one (or the line's end)
SecondField(line) ==
    LET c1 == Min(Commas(line))
        later == {i \in Commas(line) : i > c1}
        end == IF later = {} THEN Len(line) + 1 ELSE Min(later)
    IN  SubSeq(line, c1 + 1, end - 1)

\* a row with at least two fields whose second field parses as a number
NumericRow(line) == Commas(line) # {} /\ float_ok(SecondField(line))

\* the numeric rows of a file, the first line set aside
GoodRows(lines) == {i \in 2..Len(lines) : NumericRow(lines[i])}

BadRows(lines) == {i \in 2..Len(lines) : ~NumericRow(lines[i])}

\* C4: for a readable file, read_data returns, in order, the parsed second
\* fields of the lines after the first that have two fields or more and a
\* numeric second field; the first line is skipped even when it is a valid
\* row, other rows are dropped, and the count is lines - header - dropped.
C4_SamplesAreSecondFields ==
    pc = "returned" =>
        /\ Len(rdOut) = Cardinality(GoodRows(rdFile))
        /\ \A k \in 1..Len(rdOut) :
              rdOut[k] = float_val(SecondField(rdFile[Kth(GoodRows(rdFile), k)]))
        /\ Len(rdOut) = Len(rdFile) - (IF rdFile = <<>> THEN 0 ELSE 1)
                        - Cardinality(BadRows(rdFile))

\* a valid first line skipped, a malformed row dropped, a later row kept
C4_Witness ==
    /\ pc = "returned"
    /\ Len(rdFile) = 3
    /\ NumericRow(rdFile[1])
    /\ ~NumericRow(rdFile[2])
    /\ NumericRow(rdFile[3])
    /\ rdOut = <<float_val(SecondField(rdFile[3]))>>

\* ------------------------------------------------------------------- C2
Bins == config[K_bins]
Binlength == config[K_binlength]
Range == config[K_maxrange] - config[K_minrange]

\* the last render cycle got its samples: read_data returned
ReadReturned ==
    /\ cycles >= 1
    /\ K_file \in DOMAIN config
    /\ Openable(config[K_file], file)

OnePositive ==
    \/ Bins = 0 /\ Binlength > 0
    \/ Binlength = 0 /\ Bins > 0

\* C2 as stated: a render cycle reports the configuration error if and only
\* if bins and binlength are both zero or both nonzero; whenever exactly one
\* of them is nonzero it computes a layout and does not report the error.
C2_ErrorIffNotExactlyOneNonzero ==
    ReadReturned =>
        /\ (raised = ConfigError) <=> ((Bins = 0) <=> (Binlength = 0))
        /\ ((Bins = 0) # (Binlength = 0)) =>
              /\ {"nbins", "bin_length"} \subseteq assigned
              /\ raised # ConfigError

\* C2 as amended: a render cycle whose read returned reports the
\* configuration error if and only if it is not the case that one of bins,
\* binlength is zero and the other positive; in that case it computes a
\* layout and does not report the error.
C2_ErrorUnlessOnePositive ==
    ReadReturned =>
        /\ (raised = ConfigError) <=> ~OnePositive
        /\ OnePositive =>
              /\ {"nbins", "bin_length"} \subseteq assigned
              /\ raised # ConfigError
        /\ ~OnePositive => ~({"nbins", "bin_length"} \subseteq assigned)

\* a negative bin count with no bin length is reported as the error
C2_Witness ==
    /\ ReadReturned
    /\ Bins < 0
    /\ Binlength = 0
    /\ raised = ConfigError

\* ------------------------------------------------------------------- C3
EqualsSigns(arg) == {i \in DOMAIN arg : arg[i] = "="}
Malformed(arg) == Cardinality(EqualsSigns(arg)) # 1
WellFormed(arg) == Cardinality(EqualsSigns(arg)) = 1
KeyOf(arg) == SubSeq(arg, 1, Min(EqualsSigns(arg)) - 1)
ValueOf(arg) == SubSeq(arg, Min(EqualsSigns(arg)) + 1, Len(arg))

\* a value a recognised key cannot take
BadValue(arg) ==
    /\ WellFormed(arg)
    /\ \/ lower(KeyOf(arg)) \in FloatKeys /\ ~float_ok(ValueOf(arg))
       \/ lower(KeyOf(arg)) = K_bins /\ ~int_ok(ValueOf(arg))

Rejected(arg) == Malformed(arg) \/ BadValue(arg)

MalformedAt == {i \in DOMAIN argv : Malformed(argv[i])}
RejectedAt == {i \in DOMAIN argv : Rejected(argv[i])}

\* C3 as stated: if some token has no "=" or more than one, parse_args
\* prints the usage text and exits non-zero at the first such token; no
\* figure is created and no render cycle runs.
C3_ExitsAtFirstMalformed ==
    MalformedAt # {} =>
        /\ pc \in {"parse_args", "exited"}
        /\ figure = NoFigure
        /\ cycles = 0
        /\ pc = "parse_args" => argi <= Min(MalformedAt)
        /\ pc = "exited" =>
              /\ argi = Min(MalformedAt)
              /\ exitStatus > 0
              /\ output = <<Doc, InvalidArgument(argv[argi])>>

\* C3 as amended: the exit happens at the first token that is such a token
\* or a well-formed token whose recognised numeric key has a value that does
\* not convert, hence at or before the first such token.
C3_ExitsAtFirstRejected ==
    MalformedAt # {} =>
        /\ pc \in {"parse_args", "exited"}
        /\ figure = NoFigure
        /\ cycles = 0
        /\ Min(RejectedAt) <= Min(MalformedAt)
        /\ pc = "parse_args" => argi <= Min(RejectedAt)
        /\ pc = "exited" =>
              /\ argi = Min(RejectedAt)
              /\ exitStatus > 0
              /\ output = <<Doc, InvalidArgument(argv[argi])>>

\* the exit at a token with two "=" that follows two accepted tokens
C3_Witness ==
    /\ pc = "exited"
    /\ argi = 3
    /\ Cardinality(EqualsSigns(argv[argi])) = 2
    /\ figure = NoFigure

\* ------------------------------------------------------------------- C5
LayoutAssigned == cycles >= 1 /\ {"nbins", "bin_length"} \subseteq assigned

\* C5 as stated: for all minrange and maxrange, with bins = B > 0 and no
\* binlength the cycle uses B bins of width (maxrange - minrange) / B; with
\* binlength = L > 0 and no bins it uses width L and
\* floor((maxrange - minrange) / L) bins.
C5_CountIsFloor ==
    LayoutAssigned =>
        /\ (Bins > 0 /\ Binlength = 0) =>
              /\ nbins = Bins
              /\ bin_length.num * Bins = Range * bin_length.den
        /\ (Binlength > 0 /\ Bins = 0) =>
              /\ bin_length = Whole(Binlength)
              /\ nbins * Binlength <= Range
              /\ Range < (nbins + 1) * Binlength

\* C5 as amended: the bin count is (maxrange - minrange) / L truncated
\* toward zero, which is the floor whenever maxrange >= minrange.
C5_CountIsTruncated ==
    LayoutAssigned =>
        /\ (Bins > 0 /\ Binlength = 0) =>
              /\ nbins = Bins
              /\ bin_length.num * Bins = Range * bin_length.den
        /\ (Binlength > 0 /\ Bins = 0) =>
              /\ bin_length = Whole(Binlength)
              /\ Abs(nbins) * Binlength <= Abs(Range)
              /\ Abs(Range) < (Abs(nbins) + 1) * Binlength
              /\ nbins # 0 => Sign(nbins) = Sign(Range)
              /\ Range >= 0 => /\ nbins * Binlength <= Range
                               /\ Range < (nbins + 1) * Binlength

\* a reversed range that the bin length does not divide
C5_Witness ==
    /\ LayoutAssigned
    /\ Binlength > 0
    /\ Bins = 0
    /\ Range < 0
    /\ Range % Binlength # 0
    /\ nbins = 0

\* ------------------------------------------------------------------- C6
\* the last render cycle drew its bars
Drawn == cycles >= 1 /\ raised = "none" /\ figure.bars # <<>>

LastBar == figure.bars[Len(figure.bars)]

\* the samples v with lo <= v < hi for lo = minrange + k * w and
\* hi = lo + w, the width w being num / den
InHalfOpen(k, num, den) ==
    {i \in DOMAIN data :
        /\ config[K_minrange] * den + k * num <= data[i] * den
        /\ data[i] * den < config[K_minrange] * den + (k + 1) * num}

\* the same with a closed upper end
InClosed(k, num, den) ==
    {i \in DOMAIN data :
        /\ config[K_minrange] * den + k * num <= data[i] * den
        /\ data[i] * den <= config[K_minrange] * den + (k + 1) * num}

OnNewFigure == plot_histogram(config, file, NewFigure)

\* C7: a render cycle is stateless: its samples, layout and bars depend on
\* the settings, which it leaves alone, and on the file as it is at that
\* cycle, and on nothing an earlier cycle left; two cycles on an unchanged
\* file give the same layout and bars, and a cycle after an append counts
\* the appended rows.
C7_RenderIsStateless ==
    [][cycles' = cycles + 1 =>
        /\ config' = config
        /\ raised' = OnNewFigure.raised
        /\ data' = OnNewFigure.data
        /\ nbins' = OnNewFigure.nbins
        /\ bin_length' = OnNewFigure.bin_length
        /\ figure'.bars = OnNewFigure.figure.bars
        /\ figure'.texts = OnNewFigure.figure.texts
        /\ (cycles >= 1 /\ "data" \in assigned /\ fhand = file.lines) =>
              /\ raised' = raised
              /\ data' = data
              /\ nbins' = nbins
              /\ bin_length' = bin_length
              /\ figure'.bars = figure.bars
              /\ figure'.texts = figure.texts
        /\ "data" \in assigned' =>
              Len(data') = Cardinality(GoodRows(file.lines))
        /\ raised' = "none" =>
              /\ Len(figure'.bars) = 1
              /\ figure'.bars[1].label.entries
                    = Cardinality(GoodRows(file.lines))
      ]_vars

\* a second cycle, run after a row was appended, shows one set of bars with
\* the appended row among its entries
C7_Witness ==
    /\ cycles = 2
    /\ appends = 1
    /\ raised = "none"
    /\ fhand = file.lines
    /\ Len(figure.bars) = 1
    /\ LastBar.label.entries = Cardinality(GoodRows(F_rows)) + 1

\* ------------------------------------------------------------------- C8
AtToken == pc = "parse_args" /\ argi <= Len(argv)

\* no error, no exit, every entry as it was, on to the next token
Ignored ==
    /\ \A k \in DOMAIN config : k \in DOMAIN config' /\ config'[k] = config[k]
    /\ pc' = "parse_args"
    /\ argi' = argi + 1
    /\ output' = output
    /\ exitStatus' = exitStatus

\* C8 as stated: a well-formed token whose key is not one of binlength,
\* maxrange, minrange, file, color, values, bins causes no error and no exit,
\* leaves the settings as they were, and parsing goes on with the next token.
C8_OtherKeysIgnored ==
    [][(AtToken /\ WellFormed(argv[argi])
            /\ KeyOf(argv[argi]) \notin KnownKeys) => Ignored]_vars

\* C8 as amended: the same for a well-formed token whose key, lower-cased,
\* is not one of these names.
C8_UnknownKeysIgnored ==
    [][(AtToken /\ WellFormed(argv[argi])
            /\ lower(KeyOf(argv[argi])) \notin KnownKeys) =>
        (Ignored /\ config' = config)]_vars

\* an unknown key was passed over and the token after it took effect
C8_Witness ==
    /\ pc = "parse_args"
    /\ argi = 3
    /\ argv[1] = T_unknown
    /\ argv[2] = T_bins
    /\ config = Store(DefaultConfig, K_bins, 2)

\* ------------------------------------------------------------------- C9
\* C9: parse_args never fails because bins and binlength are both zero or
\* both nonzero: it exits only at a token it rejects; with such settings the
\* figure is created and the error is raised in the first render cycle,
\* after the file was read and with the chart neither cleared nor drawn.
C9_ErrorOnlyAtFirstDraw ==
    [][/\ pc' = "exited" => (argi <= Len(argv) /\ Rejected(argv[argi]))
       /\ raised' = ConfigError =>
             /\ pc = "show"
             /\ cycles' >= 1
             /\ figure' = NewFigure
       /\ (cycles' = cycles + 1 /\ raised' = ConfigError) =>
             /\ "data" \in assigned'
             /\ fhand' = file.lines
             /\ data' = read_data(file.lines)
             /\ figure' = figure
       /\ (cycles = 0 /\ cycles' = 1 /\ K_file \in DOMAIN config
              /\ Openable(config[K_file], file)
              /\ ((Bins = 0) <=> (Binlength = 0))) =>
             /\ figure = NewFigure
             /\ raised' = ConfigError
      ]_vars

\* both given: the first cycle read the file and raised, the figure untouched
C9_Witness ==
    /\ cycles = 1
    /\ Bins # 0
    /\ Binlength # 0
    /\ raised = ConfigError
    /\ "data" \in assigned
    /\ data # <<>>
    /\ figure = NewFigure

\* ------------------------------------------------------------------ C10
Convertible(arg) == WellFormed(arg) /\ ~BadValue(arg)

Converted(arg) ==
    IF lower(KeyOf(arg)) \in TextKeys THEN ValueOf(arg)
    ELSE DecimalVal(ValueOf(arg))

\* the setting k that the render cycle reads is what it was
Kept(k) ==
    /\ (k \in DOMAIN config') <=> (k \in DOMAIN config)
    /\ k \in DOMAIN config => config'[k] = config[k]

\* C10: parse_args recognises a key by its lower-cased form and stores the
\* value under the key as typed: a token whose key has an upper-case letter
\* is accepted and converted, yet every setting the render cycle reads stays
\* as it was; only a token whose key is all lower case changes one.
C10_StoredUnderTypedKey ==
    [][(AtToken /\ Convertible(argv[argi])
            /\ lower(KeyOf(argv[argi])) \in KnownKeys) =>
        /\ pc' = "parse_args"
        /\ argi' = argi + 1
        /\ output' = output
        /\ KeyOf(argv[argi]) \in DOMAIN config'
        /\ config'[KeyOf(argv[argi])] = Converted(argv[argi])
        /\ \A k \in KnownKeys : k # KeyOf(argv[argi]) => Kept(k)
        /\ KeyOf(argv[argi]) # lower(KeyOf(argv[argi])) =>
              \A k \in KnownKeys : Kept(k)
      ]_vars

\* Bins=2 was accepted, bins is still 0, and the first cycle raised for it
C10_Witness ==
    /\ <<"B", "i", "n", "s">> \in DOMAIN config
    /\ config[<<"B", "i", "n", "s">>] = 2
    /\ config[K_bins] = 0
    /\ config[K_binlength] = 0
    /\ raised = ConfigError

====
